---- MODULE Spec2Model ----
(***************************************************************************)
(* ProteoCoLoc (src/src/App.jsx): the density engine, the zone detector,   *)
(* the protein analyzer, the chart/region memos, the single-protein lookup *)
(* with retries and the whole-organism batch pipeline.                     *)
(*                                                                         *)
(* JavaScript numbers that can be fractional (densities, thresholds,       *)
(* progress) are exact rationals [num, den] with den > 0.  JavaScript      *)
(* arrays are sequences: the element at 0-based index i is seq[i + 1].     *)
(***************************************************************************)
EXTENDS Integers, Sequences, FiniteSets, TLC

\* ------------------------------------------------------------------ bounds
\* Longest short sequence the density specification draws.
MaxLen == 4
\* Largest site position drawn (one past MaxLen: an out-of-range site).
MaxPos == 5
\* Most site positions in one list of the density specification.
MaxSites == 2

\* ----------------------------------------------------------------- numbers
Num(n) == [num |-> n, den |-> 1]
Frac(n, d) == [num |-> n, den |-> d]
\* a >= b on rationals with positive denominators
GE(a, b) == a.num * b.den >= b.num * a.den
GT(a, b) == a.num * b.den > b.num * a.den
EQ(a, b) == a.num * b.den = b.num * a.den
Max(a, b) == IF a >= b THEN a ELSE b
Min(a, b) == IF a <= b THEN a ELSE b
MaxNum(a, b) == IF GE(a, b) THEN a ELSE b
\* Math.floor(x / 2) for an integer x >= 0
FloorHalf(x) == x \div 2
\* Math.ceil(a / b) for integers a >= 0, b > 0
CeilDiv(a, b) == (a + b - 1) \div b

\* All sequences over S of length at most n.
SeqsUpTo(S, n) == UNION {[1..k -> S] : k \in 0..n}

\* JS null / a missing value is the empty tuple; a present value v is <<v>>.
Null == <<>>
Some(v) == <<v>>
\* Whether the 0-based index i lies inside the array (arr[i] is not undefined).
InArray(arr, i) == i >= 0 /\ i < Len(arr)

\* ---------------------------------------------------------- calculateDensity
\* Lines 14-22: the raw pass.  start/end are 0-based indices while p is the
\* 1-based site position, compared as the code compares them.
rawDensity(positions, length, windowSize) ==
  LET halfWindow == FloorHalf(windowSize)
  IN  [k \in 1..length |->
         LET i == k - 1
             start == Max(0, i - halfWindow)
             end == Min(length, i + halfWindow)
         IN  Cardinality({q \in DOMAIN positions :
                            positions[q] >= start /\ positions[q] <= end})]

\* Lines 29-36: the inner loop over j, from j up to last, skipping the indices
\* outside the array; returns <<sum, count>>.
RECURSIVE smoothLoop(_, _, _, _)
smoothLoop(raw, length, j, last) ==
  IF j > last THEN <<0, 0>>
  ELSE LET rest == smoothLoop(raw, length, j + 1, last)
       IN  IF j >= 0 /\ j < length
           THEN <<raw[j + 1] + rest[1], 1 + rest[2]>>
           ELSE rest

\* The smoothing pass dividing by the window's full width 2r+1 instead of
\* count.
smoothedDensityFullWidth(raw, length, smoothWindow) ==
  [k \in 1..length |->
     LET i == k - 1
         sc == smoothLoop(raw, length, i - smoothWindow, i + smoothWindow)
     IN  Frac(sc[1], 2 * smoothWindow + 1)]

\* Lines 24-40: the smoothing pass; each value is sum / count.
smoothedDensity(raw, length, smoothWindow) ==
  [k \in 1..length |->
     LET i == k - 1
         sc == smoothLoop(raw, length, i - smoothWindow, i + smoothWindow)
     IN  Frac(sc[1], sc[2])]
\* calculateDensity with the arrays of lines 12 and 25 one entry longer and
\* the guard of line 9 letting length 0 through.
calculateDensityPadded(positions, length, windowSize, smoothingFactor) ==
  IF length < 0 THEN <<>>
  ELSE LET raw == rawDensity(positions, length, windowSize)
       IN  IF smoothingFactor > 0
           THEN Append(smoothedDensity(raw, length, smoothingFactor), Num(0))
           ELSE [k \in 1..(length + 1) |-> IF k <= length THEN Num(raw[k]) ELSE Num(0)]


calculateDensity(positions, length, windowSize, smoothingFactor) ==
  IF length <= 0 THEN <<>>
  ELSE LET raw == rawDensity(positions, length, windowSize)
       IN  IF smoothingFactor > 0
           THEN smoothedDensity(raw, length, smoothingFactor)
           ELSE [k \in 1..length |-> Num(raw[k])]

\* ------------------------------------------------------------ analyzeProtein
\* isHighDensityZone with the comparisons made strict (> for >=).
isHighDensityZoneStrict(ssDensity, nDensity, length, ssT, glycoT) ==
  [k \in 1..length |->
     GT(ssDensity[k], ssT) /\ GT(nDensity[k], glycoT)]

\* Lines 61-66: the high-density zone mask (new Array(length).fill(false), then
\* true where both curves reach their thresholds).
isHighDensityZone(ssDensity, nDensity, length, ssT, glycoT) ==
  [k \in 1..length |->
     GE(ssDensity[k], ssT) /\ GE(nDensity[k], glycoT)]
\* processSites with a range's last position left out (line 76 with
\* pos < range.end).
processSitesExclusiveEnd(protein, mask, sites, typeCode, typeLabel) ==
  [q \in 1..Len(sites) |->
     LET pos == sites[q]
         arrayIndex == pos - 1
         embeddedInSS ==
           /\ protein.ssBondRanges /= Null
           /\ \E r \in DOMAIN protein.ssBondRanges :
                 pos >= protein.ssBondRanges[r].start /\ pos < protein.ssBondRanges[r].end
         inHighDensity == IF InArray(mask, arrayIndex) THEN mask[arrayIndex + 1]
                          ELSE FALSE
     IN  [gene |-> protein.gene, accession |-> protein.id,
          scientificName |-> protein.scientificName,
          glycosite |-> <<typeCode, pos>>, type |-> typeLabel,
          inUniProtDisulfide |-> embeddedInSS, inHighDensityZone |-> inHighDensity]]
\* processSites reading the mask at the position itself (line 72 without
\* the - 1).
processSitesOneBased(protein, mask, sites, typeCode, typeLabel) ==
  [q \in 1..Len(sites) |->
     LET pos == sites[q]
         arrayIndex == pos
         embeddedInSS ==
           /\ protein.ssBondRanges /= Null
           /\ \E r \in DOMAIN protein.ssBondRanges :
                 pos >= protein.ssBondRanges[r].start /\ pos <= protein.ssBondRanges[r].end
         inHighDensity == IF InArray(mask, arrayIndex) THEN mask[arrayIndex + 1]
                          ELSE FALSE
     IN  [gene |-> protein.gene, accession |-> protein.id,
          scientificName |-> protein.scientificName,
          glycosite |-> <<typeCode, pos>>, type |-> typeLabel,
          inUniProtDisulfide |-> embeddedInSS, inHighDensityZone |-> inHighDensity]]


\* Lines 69-92: one row per site of the list; mask is the array of line 61.
processSites(protein, mask, sites, typeCode, typeLabel) ==
  [q \in 1..Len(sites) |->
     LET pos == sites[q]
         arrayIndex == pos - 1
         \* lines 74-77: false unless protein.ssBondRanges is there and some
         \* range holds pos
         embeddedInSS ==
           /\ protein.ssBondRanges /= Null
           /\ \E r \in DOMAIN protein.ssBondRanges :
                 pos >= protein.ssBondRanges[r].start /\ pos <= protein.ssBondRanges[r].end
         \* line 80: isHighDensityZone[arrayIndex] || false
         inHighDensity == IF InArray(mask, arrayIndex) THEN mask[arrayIndex + 1]
                          ELSE FALSE
     IN  [gene |-> protein.gene, accession |-> protein.id,
          scientificName |-> protein.scientificName,
          glycosite |-> <<typeCode, pos>>, type |-> typeLabel,
          inUniProtDisulfide |-> embeddedInSS, inHighDensityZone |-> inHighDensity]]
\* analyzeProtein with the phosphorylation rows put first (line 98).
analyzeProteinPhosphoFirst(protein, p) ==
  LET length == protein.length
      ssDensity == calculateDensity(protein.ssBonds, length, p.ssWindowSize, p.ssSmoothing)
      nDensity == calculateDensity(protein.nLinked, length, p.glycoWindowSize, p.glycoSmoothing)
  IN  IF length < 0
      THEN [threw |-> TRUE, mask |-> <<>>, rows |-> <<>>]
      ELSE LET mask == isHighDensityZone(ssDensity, nDensity, length,
                                         p.ssThreshold, p.glycoThreshold)
           IN  [threw |-> FALSE, mask |-> mask,
                rows |-> processSites(protein, mask, protein.phosphorylation, "P", "Phospho")
                         \o processSites(protein, mask, protein.nLinked, "N", "N-Linked")
                         \o processSites(protein, mask, protein.oLinked, "O", "O-Linked")]


\* Lines 46-99.  new Array(length) raises RangeError for a negative length;
\* the outcome is [threw, mask, rows].
analyzeProtein(protein, p) ==
  LET length == protein.length
      ssDensity == calculateDensity(protein.ssBonds, length, p.ssWindowSize, p.ssSmoothing)
      nDensity == calculateDensity(protein.nLinked, length, p.glycoWindowSize, p.glycoSmoothing)
  IN  IF length < 0
      THEN [threw |-> TRUE, mask |-> <<>>, rows |-> <<>>]
      ELSE LET mask == isHighDensityZone(ssDensity, nDensity, length,
                                         p.ssThreshold, p.glycoThreshold)
           IN  [threw |-> FALSE, mask |-> mask,
                rows |-> processSites(protein, mask, protein.nLinked, "N", "N-Linked")
                         \o processSites(protein, mask, protein.oLinked, "O", "O-Linked")
                         \o processSites(protein, mask, protein.phosphorylation, "P", "Phospho")]

\* -------------------------------------------------------------- handleExport
\* Number.prototype.toFixed(4) of a non-negative value: the value rounded to a
\* multiple of 1/10000, held as that multiple.
toFixed4(x) == (2 * 10000 * x.num + x.den) \div (2 * x.den)

\* Lines 389: the zone flag of one exported residue row.
exportIsOverlap(ssDensity, nDensity, k, ssT, glycoT) ==
  GE(ssDensity[k], ssT) /\ GE(nDensity[k], glycoT)

\* Lines 381-405: the per-residue rows of the exported table.
exportRows(d, p) ==
  LET ssDensity == calculateDensity(d.ssBonds, d.length, p.ssWindowSize, p.ssSmoothing)
      nDensity == calculateDensity(d.nLinked, d.length, p.glycoWindowSize, p.glycoSmoothing)
      oDensity == calculateDensity(d.oLinked, d.length, p.glycoWindowSize, p.glycoSmoothing)
      pDensity == calculateDensity(d.phosphorylation, d.length, p.glycoWindowSize, p.glycoSmoothing)
  IN  [k \in 1..Max(0, d.length) |->
         [scientificName |-> d.scientificName, pos |-> k,
          aa |-> IF InArray(d.sequence, k - 1) THEN d.sequence[k] ELSE "-",
          ss |-> toFixed4(ssDensity[k]), nLinked |-> toFixed4(nDensity[k]),
          oLinked |-> toFixed4(oDensity[k]), phos |-> toFixed4(pDensity[k]),
          isOverlap |-> exportIsOverlap(ssDensity, nDensity, k,
                                        p.ssThreshold, p.glycoThreshold)]]

\* ------------------------------------------------- chartData, overlapRegions
\* Line 543: the chart keeps at most about ChartPoints points.
ChartPoints == 600
chartStep(length) == Max(1, CeilDiv(length, ChartPoints))

\* Lines 546-559: the sampled points, i = 0, step, 2*step, ... < length.
chartPoint(ssDensity, nDensity, oDensity, pDensity, i, p) ==
  LET isHighSS == GE(ssDensity[i + 1], p.ssThreshold)
      isHighN == GE(nDensity[i + 1], p.glycoThreshold)
      isOverlap == isHighSS /\ isHighN
      top == MaxNum(ssDensity[i + 1], nDensity[i + 1])
  IN  [pos |-> i, ss |-> ssDensity[i + 1], nLinked |-> nDensity[i + 1],
       oLinked |-> oDensity[i + 1], phos |-> pDensity[i + 1],
       overlapHeight |-> IF isOverlap THEN Frac(top.num * 11, top.den * 10) ELSE Num(0)]
\* chartData without the closing point of lines 561-563.
chartDataOfUnclosed(dat, p) ==
  IF dat = Null THEN <<>>
  ELSE IF dat[1].length <= 0 THEN <<>>
  ELSE
    LET d == dat[1]
        ssDensity == calculateDensity(d.ssBonds, d.length, p.ssWindowSize, p.ssSmoothing)
        nDensity == calculateDensity(d.nLinked, d.length, p.glycoWindowSize, p.glycoSmoothing)
        oDensity == calculateDensity(d.oLinked, d.length, p.glycoWindowSize, p.glycoSmoothing)
        pDensity == calculateDensity(d.phosphorylation, d.length, p.glycoWindowSize, p.glycoSmoothing)
        step == chartStep(d.length)
        n == CeilDiv(d.length, step)
    IN  [k \in 1..n |->
           chartPoint(ssDensity, nDensity, oDensity, pDensity, (k - 1) * step, p)]


\* Lines 534-566; dat is the data state (Null or Some(protein)).
chartDataOf(dat, p) ==
  IF dat = Null THEN <<>>
  ELSE IF dat[1].length <= 0 THEN <<>>
  ELSE
    LET d == dat[1]
        ssDensity == calculateDensity(d.ssBonds, d.length, p.ssWindowSize, p.ssSmoothing)
        nDensity == calculateDensity(d.nLinked, d.length, p.glycoWindowSize, p.glycoSmoothing)
        oDensity == calculateDensity(d.oLinked, d.length, p.glycoWindowSize, p.glycoSmoothing)
        pDensity == calculateDensity(d.phosphorylation, d.length, p.glycoWindowSize, p.glycoSmoothing)
        step == chartStep(d.length)
        n == CeilDiv(d.length, step)
        points == [k \in 1..n |->
                     chartPoint(ssDensity, nDensity, oDensity, pDensity, (k - 1) * step, p)]
    IN  IF Len(points) > 0 /\ points[Len(points)].pos < d.length
        THEN Append(points, [pos |-> d.length, ss |-> Num(0), nLinked |-> Num(0),
                             oLinked |-> Num(0), phos |-> Num(0),
                             overlapHeight |-> Num(0)])
        ELSE points

\* Lines 573-580: the forEach over the points from index k on, with the
\* region opened so far (currentStart: Null or Some(pos)).
RECURSIVE regionScan(_, _, _)
regionScan(points, k, currentStart) ==
  IF k > Len(points)
  THEN \* lines 581-583
       IF currentStart /= Null
       THEN <<[start |-> currentStart[1], end |-> points[Len(points)].pos]>>
       ELSE <<>>
  ELSE LET pt == points[k]
       IN  IF GT(pt.overlapHeight, Num(0)) /\ currentStart = Null
           THEN regionScan(points, k + 1, Some(pt.pos))
           ELSE IF EQ(pt.overlapHeight, Num(0)) /\ currentStart /= Null
           THEN <<[start |-> currentStart[1], end |-> pt.pos]>>
                \o regionScan(points, k + 1, Null)
           ELSE regionScan(points, k + 1, currentStart)

\* Lines 568-585.
overlapRegionsOf(points) ==
  IF Len(points) = 0 THEN <<>> ELSE regionScan(points, 1, Null)

\* ---------------------------------------------------------- fetchUniprotData
\* Line 102.
maxRetries == 2

\* What one fetch attempt of lines 113-130 ends in.  kind is
\*   "found"    response ok, results[0] decoded by parseUniProtEntry (line 130)
\*   "noMatch"  response ok, results missing or empty (lines 126-128)
\*   "http"     response not ok (lines 115-122); text is the server's
\*              statusText / messages, which mentionsNotFound or not
\*   "network"  fetch itself rejected (line 113)
\*   "badBody"  response ok, but the body or the entry cannot be decoded
\*              (lines 124 and 130 throw)
\* The Error thrown at line 127 always reads 'Gene "<name>" not found in ...'.
Outcome(kind, mentionsNotFound) == [kind |-> kind, mentionsNotFound |-> mentionsNotFound]
AttemptOutcomes ==
  {Outcome("found", FALSE), Outcome("noMatch", TRUE),
   Outcome("http", FALSE), Outcome("http", TRUE),
   Outcome("network", FALSE), Outcome("badBody", FALSE)}

\* Line 133 narrowed to the text of a server's error reply: the message of
\* line 127 is no longer recognised.
messageIncludesStatusText(outcome) == outcome.kind = "http" /\ outcome.mentionsNotFound

\* Line 133: error.message.includes("not found").
messageIncludesNotFound(outcome) == outcome.mentionsNotFound

\* --------------------------------------------------------- parseUniProtEntry
\* A UniProt JSON entry: primaryAccession, sequence (Null when the entry has
\* none, else Some([value, length])), geneName (genes[0].geneName.value or
\* Null), organism and features [type, description, start, end], where
\* description is the class of the text the code tests with includes().
isDisulfide(f) == f.type = "Disulfide bond"
isNLinked(f) == f.type = "Glycosylation" /\ f.description = "N-linked"
isOLinked(f) == f.type = "Glycosylation" /\ f.description = "O-linked"
isPhospho(f) == f.type = "Modified residue" /\ f.description = "phospho"
startsOf(fs) == [k \in DOMAIN fs |-> fs[k].start]

\* Lines 143-191.  entry.sequence.value raises TypeError when the entry has no
\* sequence; the outcome is [threw, protein].
parseUniProtEntry(entry) ==
  IF entry.sequence = Null
  THEN [threw |-> TRUE, protein |-> Null]
  ELSE [threw |-> FALSE,
        protein |-> Some(
          [id |-> entry.primaryAccession,
           gene |-> IF entry.geneName /= Null THEN entry.geneName[1]
                    ELSE entry.primaryAccession,
           scientificName |-> entry.organism,
           length |-> entry.sequence[1].length,
           sequence |-> entry.sequence[1].value,
           ssBonds |-> startsOf(SelectSeq(entry.features, isDisulfide)),
           ssBondRanges |-> LET ds == SelectSeq(entry.features, isDisulfide)
                            IN  [k \in DOMAIN ds |-> [start |-> ds[k].start, end |-> ds[k].end]],
           nLinked |-> startsOf(SelectSeq(entry.features, isNLinked)),
           oLinked |-> startsOf(SelectSeq(entry.features, isOLinked)),
           phosphorylation |-> startsOf(SelectSeq(entry.features, isPhospho))])]

\* Line 478: json.results.map(parseUniProtEntry); a throw of any call ends it.
\* (f \o <<>> is f as a tuple: each element is computed once.)
parseAll(entries) ==
  LET parsed == [k \in DOMAIN entries |-> parseUniProtEntry(entries[k])] \o <<>>
  IN  IF \E k \in DOMAIN parsed : parsed[k].threw
      THEN [threw |-> TRUE, proteins |-> <<>>]
      ELSE [threw |-> FALSE,
            proteins |-> [k \in DOMAIN parsed |-> parsed[k].protein[1]] \o <<>>]

\* ----------------------------------------------------------------- parseFasta
\* A FASTA text is its lines after trim(): [header |-> TRUE, id, gene] for a
\* line starting with '>' (id and gene are what lines 214-223 cut out of it),
\* [header |-> FALSE, residues] for a sequence line; blank lines are skipped
\* at line 239 and left out.
\* Lines 204-208: N(?=[^P][ST][^P]), the 1-based indices of the matches.
motifN(seq) ==
  SelectSeq([k \in 1..Len(seq) |-> k],
            LAMBDA k : /\ seq[k] = "N"
                       /\ k + 3 <= Len(seq)
                       /\ seq[k + 1] /= "P"
                       /\ seq[k + 2] \in {"S", "T"}
                       /\ seq[k + 3] /= "P")
\* Lines 210-212.
cysteines(seq) == SelectSeq([k \in 1..Len(seq) |-> k], LAMBDA k : seq[k] = "C")

\* Lines 200-235: finishEntry, as the list of proteins it pushes (0 or 1).
finishEntry(currentHeader, currentSeq) ==
  IF currentHeader /= Null /\ currentSeq /= <<>>
  THEN <<[id |-> currentHeader[1].id, gene |-> currentHeader[1].gene,
          scientificName |-> "Custom FASTA", length |-> Len(currentSeq),
          sequence |-> currentSeq, ssBonds |-> cysteines(currentSeq),
          ssBondRanges |-> <<>>, nLinked |-> motifN(currentSeq),
          oLinked |-> <<>>, phosphorylation |-> <<>>]>>
  ELSE <<>>

\* Lines 237-248: the loop over the lines from index k on.
RECURSIVE fastaLoop(_, _, _, _)
fastaLoop(lines, k, currentHeader, currentSeq) ==
  IF k > Len(lines) THEN finishEntry(currentHeader, currentSeq)
  ELSE IF lines[k].header
       THEN finishEntry(currentHeader, currentSeq)
            \o fastaLoop(lines, k + 1, Some(lines[k]), <<>>)
       ELSE fastaLoop(lines, k + 1, currentHeader, currentSeq \o lines[k].residues)

\* Lines 194-250.
parseFasta(text) == fastaLoop(text, 1, Null, <<>>)

\* ----------------------------------------------------------- processBatchList
\* Lines 436-445 with the parameters p of the render the handler belongs to;
\* an exception of analyzeProtein passes through.  The outcome is [threw, rows].
\* parts[lo] \o ... \o parts[hi], the row lists joined in order.
RECURSIVE joinRows(_, _, _)
joinRows(parts, lo, hi) ==
  IF lo > hi THEN <<>>
  ELSE IF lo = hi THEN parts[lo]
  ELSE LET mid == (lo + hi) \div 2
       IN  joinRows(parts, lo, mid) \o joinRows(parts, mid + 1, hi)

\* processBatchList keeping the rows of the last protein only (results
\* replaced, not extended, at line 442).
processBatchListReplacing(proteins, p) ==
  LET analysis == [k \in DOMAIN proteins |-> analyzeProtein(proteins[k], p)] \o <<>>
  IN  IF \E k \in DOMAIN proteins : analysis[k].threw
      THEN [threw |-> TRUE, rows |-> <<>>]
      ELSE [threw |-> FALSE,
            rows |-> IF proteins = <<>> THEN <<>> ELSE analysis[Len(proteins)].rows]

processBatchList(proteins, p) ==
  LET analysis == [k \in DOMAIN proteins |-> analyzeProtein(proteins[k], p)] \o <<>>
  IN  IF \E k \in DOMAIN proteins : analysis[k].threw
      THEN [threw |-> TRUE, rows |-> <<>>]
      ELSE [threw |-> FALSE,
            rows |-> joinRows([k \in DOMAIN proteins |-> analysis[k].rows],
                              1, Len(proteins))]

\* ------------------------------------------------- runWholeOrganismAnalysis
\* Line 457: the page size.
size == 250
\* Line 476: the total assumed when the x-total-results header gives none.
DefaultTotal == 20400

\* Line 476: Number(header) || 20400; a missing, empty, zero or non-numeric
\* header is the hint 0.
totalOf(hint) == IF hint = 0 THEN DefaultTotal ELSE hint

\* Line 484: Math.min(100, (totalProcessed / total) * 100).
progressOf(totalProcessed, total) ==
  IF totalProcessed * 100 >= 100 * total THEN Num(100)
  ELSE Frac(totalProcessed * 100, total)

\* hasMoreAfter without the test of the page's record count (line 486).
hasMoreAfterLinkOnly(n, link) == link = "next"

\* Lines 486-497: whether the loop goes on after a page with n results and
\* the link header class link ("none": no header, "next": rel="next" with a
\* cursor, "other": a header without a usable next cursor).
hasMoreAfter(n, link) ==
  IF n < size \/ link = "none" THEN FALSE
  ELSE link = "next"

\* ------------------------------------------------------------------- state
VARIABLES
  densityArgs,      \* arguments of the calculateDensity call under test
  densityRet,       \* [done, value]: whether the call returned, and its return value
  data,             \* useState(null): Null or Some(protein) shown in the calibration view
  ssWindowSize, ssThreshold, ssSmoothing,           \* parameter group 1 (lines 303-305)
  glycoWindowSize, glycoThreshold, glycoSmoothing,  \* parameter group 2 (lines 308-310)
  calibOut,         \* what the last export / analysis call produced: [op, ...]
  paramFile,        \* Null, or Some of the file the last exportParameters call saved:
                    \* [text, from, reading], its text, the parameter values it was
                    \* saved from, and whether a FileReader is reading it
  geneName,         \* useState("FN1"): the search box
  loading,          \* useState(false)
  error,            \* useState(null): Null or Some(message)
  lookups,          \* the handleSearch calls so far, each with the locals of its
                    \* fetchUniprotData call
  batchStatus,      \* useState("idle"): "idle", "processing" or "completed"
  batchProgress,    \* useState(0)
  batchResults,     \* useState([])
  processedCount,   \* useState(0)
  runs,             \* the runWholeOrganismAnalysis calls so far, each with its locals
  fastaReads,       \* the FileReader reads of handleFastaUpload, each [text, params, loaded]
  downloads         \* the downloadBatchCSV calls so far, each [by, id, rows]: by run
                    \* id ("run") or by the load of FASTA read id ("fasta")

paramVars == <<ssWindowSize, ssThreshold, ssSmoothing,
               glycoWindowSize, glycoThreshold, glycoSmoothing>>
densityVars == <<densityArgs, densityRet>>
calibVars == <<data, calibOut, paramFile>>
lookupVars == <<geneName, loading, error, lookups>>
batchVars == <<batchStatus, batchProgress, batchResults, processedCount, runs,
               fastaReads, downloads>>
vars == <<densityVars, paramVars, calibVars, lookupVars, batchVars>>

\* The parameter record built at lines 342-345 and 438.
params ==
  [ssWindowSize |-> ssWindowSize, ssThreshold |-> ssThreshold, ssSmoothing |-> ssSmoothing,
   glycoWindowSize |-> glycoWindowSize, glycoThreshold |-> glycoThreshold,
   glycoSmoothing |-> glycoSmoothing]

\* The useMemo values of lines 534-585: functions of data and the parameters.
chartData == chartDataOf(data, params)
overlapRegions == overlapRegionsOf(chartData)

\* The initial values of the useState calls, lines 299-310.
DefaultParams ==
  /\ ssWindowSize = 50 /\ ssThreshold = Num(3) /\ ssSmoothing = 5
  /\ glycoWindowSize = 50 /\ glycoThreshold = Num(3) /\ glycoSmoothing = 5
IdleDensity ==
  /\ densityArgs = [positions |-> <<>>, length |-> 0, windowSize |-> 0, smoothingFactor |-> 0]
  /\ densityRet = [done |-> FALSE, value |-> <<>>]
IdleCalib ==
  /\ data = Null
  /\ calibOut = [op |-> "none"]
  /\ paramFile = Null
IdleLookup ==
  /\ geneName = "FN1" /\ loading = FALSE /\ error = Null /\ lookups = <<>>
\* Lines 316-319.
IdleBatch ==
  /\ batchStatus = "idle" /\ batchProgress = Num(0) /\ batchResults = <<>>
  /\ processedCount = 0 /\ runs = <<>> /\ fastaReads = <<>> /\ downloads = <<>>

\* -------------------------------------------------- density specification
WindowSizes == {0, 2, 3, 10}
Smoothings == {0, 1, 2}
DensityArgs ==
  [positions : SeqsUpTo(1..MaxPos, MaxSites), length : 0..MaxLen,
   windowSize : WindowSizes, smoothingFactor : Smoothings]

InitDensity ==
  /\ densityArgs \in DensityArgs
  /\ densityRet = [done |-> FALSE, value |-> <<>>]
  /\ DefaultParams /\ IdleCalib /\ IdleLookup /\ IdleBatch

CallDensity ==
  /\ ~densityRet.done
  /\ densityRet' = [done |-> TRUE,
                    value |-> calculateDensity(densityArgs.positions, densityArgs.length,
                                               densityArgs.windowSize,
                                               densityArgs.smoothingFactor)]
  /\ UNCHANGED <<densityArgs, paramVars, calibVars, lookupVars, batchVars>>

NextDensity == CallDensity

SpecDensity == InitDensity /\ [][NextDensity]_vars

\* ---------------------------------------------- calibration specification
\* A protein record as parseUniProtEntry / parseFasta build it (lines 179-190).
Protein(len, seq, ss, ranges, n, o, ph) ==
  [id |-> "P1", gene |-> "G1", scientificName |-> "Homo sapiens",
   length |-> len, sequence |-> seq, ssBonds |-> ss, ssBondRanges |-> ranges,
   nLinked |-> n, oLinked |-> o, phosphorylation |-> ph]

\* Longest short protein of the calibration specification.
CalibMaxLen == 3
\* A protein longer than ChartPoints residues, so that the chart step is 2.
LongLen == 601

\* Short proteins: up to two disulfide sites, at most one N-linked site (at
\* positions 0..CalibMaxLen+1, so also outside the sequence), and either no
\* other sites and one disulfide range, or an O-linked site, two
\* phosphorylation sites out of order and two disulfide ranges.
ShortProteins ==
  {Protein(len, [k \in 1..len |-> "A"], ss, op[3], n, op[1], op[2]) :
     len \in 0..CalibMaxLen,
     ss \in SeqsUpTo(1..(CalibMaxLen + 1), 2),
     n \in SeqsUpTo(0..(CalibMaxLen + 1), 1),
     op \in {<<<<>>, <<>>, <<[start |-> 1, end |-> 2]>>>>,
             <<<<2>>, <<3, 1>>, <<[start |-> 1, end |-> 1], [start |-> 3, end |-> 4]>>>>}}
\* Long proteins (the chart samples every second residue): a disulfide and an
\* N-linked site near the start and, in the last one, also one of each at the
\* very end.
LongProteins ==
  {Protein(LongLen, [k \in 1..LongLen |-> "A"], <<ss>>, <<>>, <<n>>, <<>>, <<>>) :
     ss \in {10, 11}, n \in {16, 17, 30}}
  \cup {Protein(LongLen, [k \in 1..LongLen |-> "A"], <<11, LongLen - 3>>, <<>>,
                 <<16, LongLen - 1>>, <<>>, <<>>)}
CalibProteins == ShortProteins \cup LongProteins

ParamWindowSizes == {2, 10}
ParamThresholds == {Num(1), Frac(3, 2)}
ParamSmoothings == {0, 1}

InitCalib ==
  /\ data \in {Some(d) : d \in CalibProteins}
  /\ ssWindowSize \in ParamWindowSizes /\ glycoWindowSize = 2
  /\ ssThreshold \in ParamThresholds /\ glycoThreshold \in ParamThresholds
  /\ ssSmoothing \in ParamSmoothings /\ glycoSmoothing \in ParamSmoothings
  /\ calibOut = [op |-> "none"]
  /\ paramFile = Null
  /\ IdleDensity /\ IdleLookup /\ IdleBatch

\* Lines 378-415: the Export button.
handleExport ==
  /\ data /= Null
  /\ calibOut' = [op |-> "export", rows |-> exportRows(data[1], params)]
  /\ UNCHANGED <<data, paramFile, paramVars, densityVars, lookupVars, batchVars>>

\* Lines 46-99 applied to the displayed protein with the parameters in force.
callAnalyzeProtein ==
  /\ data /= Null
  /\ calibOut' = [op |-> "analyze", protein |-> data[1], params |-> params,
                  result |-> analyzeProtein(data[1], params)]
  /\ UNCHANGED <<data, paramFile, paramVars, densityVars, lookupVars, batchVars>>

\* Lines 763-765: a slider of group 1 moves (onChange -> setSs...).
setSsParameter ==
  /\ \/ \E v \in ParamWindowSizes : ssWindowSize' = v /\ UNCHANGED <<ssThreshold, ssSmoothing>>
     \/ \E v \in ParamThresholds : ssThreshold' = v /\ UNCHANGED <<ssWindowSize, ssSmoothing>>
     \/ \E v \in ParamSmoothings : ssSmoothing' = v /\ UNCHANGED <<ssWindowSize, ssThreshold>>
  /\ calibOut' = [op |-> "none"]
  /\ UNCHANGED <<data, paramFile, glycoWindowSize, glycoThreshold, glycoSmoothing, densityVars,
                 lookupVars, batchVars>>

NextCalib == handleExport \/ callAnalyzeProtein \/ setSsParameter

SpecCalib == InitCalib /\ [][NextCalib]_vars
\* ------------------------------------------------- analysis specification
\* analyzeProtein applied to sound and to structurally invalid protein records
\* (the records parseUniProtEntry builds from EntryNegative and EntryMismatch:
\* a negative length, a sequence text shorter than length).
NegativeProtein == Protein(-1, <<>>, <<>>, <<>>, <<>>, <<1>>, <<>>)
MismatchProtein == Protein(3, <<"N", "C">>, <<2>>, <<[start |-> 2, end |-> 3]>>, <<1>>, <<>>, <<>>)
AnalyzeProteins ==
  {NegativeProtein, MismatchProtein}
  \cup {d \in ShortProteins : Len(d.ssBonds) <= 1}

\* Group 1 starts at its smallest values; the sliders move it from there.
InitAnalyze ==
  /\ data \in {Some(d) : d \in AnalyzeProteins}
  /\ ssWindowSize = 2 /\ glycoWindowSize = 2
  /\ ssThreshold = Num(1) /\ glycoThreshold \in ParamThresholds
  /\ ssSmoothing = 0 /\ glycoSmoothing \in ParamSmoothings
  /\ calibOut = [op |-> "none"]
  /\ paramFile = Null
  /\ IdleDensity /\ IdleLookup /\ IdleBatch

NextAnalyze == callAnalyzeProtein \/ setSsParameter

SpecAnalyze == InitAnalyze /\ [][NextAnalyze]_vars


\* --------------------------------------------------- lookup specification
\* Most handleSearch calls in one execution.
MaxLookups == 2

GeneNames == {"FN1", "ALB", ""}
\* The record the source holds for a gene (parseUniProtEntry of results[0]).
ProteinOf(g) ==
  [Protein(3, <<"N", "C", "S">>, <<2>>, <<[start |-> 1, end |-> 2]>>, <<1>>, <<>>, <<>>)
     EXCEPT !.gene = g]

\* Line 335.
LookupError(g) == [kind |-> "lookup", gene |-> g]

InitLookup ==
  /\ IdleLookup /\ IdleCalib /\ IdleDensity /\ DefaultParams /\ IdleBatch

\* Lines 325-330 and 101-113: handleSearch up to the first await fetch.  It is
\* called by the mount effect (line 322), the Analyze button (line 628,
\* disabled while loading) and the Enter key (line 620, never disabled).
handleSearch(byButton) ==
  /\ Len(lookups) < MaxLookups
  /\ geneName /= ""            \* line 326: if (!geneName.trim()) return
  /\ byButton => ~loading
  /\ loading' = TRUE
  /\ error' = Null
  /\ lookups' = Append(lookups,
       [gene |-> geneName, pc |-> "fetch", attempt |-> 0, result |-> Null,
        \* what the call has done so far: fetches issued, delays awaited, fetches
        \* settled, the last outcome, and whether every outcome was a failure
        \* other than "no match"
        fetches |-> 1, delays |-> 0, settled |-> 0, last |-> Null, onlyFailures |-> TRUE])
  /\ UNCHANGED <<geneName, calibVars, paramVars, densityVars, batchVars>>

\* Line 619: typing in the search box.
setGeneName ==
  /\ \E g \in GeneNames : g /= geneName /\ geneName' = g
  /\ Len(lookups) < MaxLookups
  /\ UNCHANGED <<loading, error, lookups, calibVars, paramVars, densityVars, batchVars>>

\* Lines 332-337: handleSearch after fetchUniprotData returned result.
searchReturns(l, result) ==
  /\ IF result /= Null
     THEN data' = result /\ error' = error
     ELSE error' = Some(LookupError(lookups[l].gene)) /\ data' = data
  /\ loading' = FALSE

\* Lines 113-136: the awaited fetch of lookup l settles with outcome o.
fetchSettles(l, o) ==
  /\ lookups[l].pc = "fetch"
  /\ LET me == [lookups[l] EXCEPT !.settled = @ + 1, !.last = Some(o),
                                  !.onlyFailures = @ /\ o.kind \in {"http", "network", "badBody"}]
     IN  IF o.kind = "found"
         THEN \* line 130
              /\ lookups' = [lookups EXCEPT ![l] =
                   [me EXCEPT !.pc = "done", !.result = Some(ProteinOf(me.gene))]]
              /\ searchReturns(l, Some(ProteinOf(me.gene)))
         ELSE IF messageIncludesNotFound(o)
         THEN \* line 133
              /\ lookups' = [lookups EXCEPT ![l] = [me EXCEPT !.pc = "done"]]
              /\ searchReturns(l, Null)
         ELSE IF me.attempt + 1 > maxRetries
         THEN \* lines 134-135
              /\ lookups' = [lookups EXCEPT ![l] =
                   [me EXCEPT !.pc = "done", !.attempt = @ + 1]]
              /\ searchReturns(l, Null)
         ELSE \* lines 134-136
              /\ lookups' = [lookups EXCEPT ![l] =
                   [me EXCEPT !.pc = "delay", !.attempt = @ + 1, !.delays = @ + 1]]
              /\ UNCHANGED <<data, error, loading>>
  /\ UNCHANGED <<geneName, calibOut, paramFile, paramVars, densityVars, batchVars>>

\* Lines 136, 105, 113: the 1000 ms timer fires and the next attempt's fetch
\* is issued.
delayElapses(l) ==
  /\ lookups[l].pc = "delay"
  /\ lookups[l].attempt <= maxRetries
  /\ lookups' = [lookups EXCEPT ![l] = [@ EXCEPT !.pc = "fetch", !.fetches = @ + 1]]
  /\ UNCHANGED <<geneName, loading, error, calibVars, paramVars, densityVars,
                 batchVars>>

NextLookup ==
  \/ \E b \in BOOLEAN : handleSearch(b)
  \/ setGeneName
  \/ \E l \in DOMAIN lookups : \E o \in AttemptOutcomes : fetchSettles(l, o)
  \/ \E l \in DOMAIN lookups : delayElapses(l)

SpecLookup == InitLookup /\ [][NextLookup]_vars

\* ---------------------------------------------------- batch specification
\* Most clicks on Run in one execution.
MaxRuns == 2
\* Most pages the source serves to one run (its last page ends the results).
MaxPages == 2
\* Most FASTA files chosen in one execution.
MaxUploads == 1

Feature(type, description, start, end) ==
  [type |-> type, description |-> description, start |-> start, end |-> end]
Entry(acc, seq, feats) ==
  [primaryAccession |-> acc, sequence |-> seq, geneName |-> Some("G" \o acc),
   organism |-> "Homo sapiens", features |-> feats]

\* Entries the source can serve.  EntryA and EntryB are sound records with
\* one site each and EntryPlain a database-only record (no sequence text, no
\* sites); the other three are
\* structurally invalid: a negative length, a sequence whose length disagrees
\* with length, and an entry without the sequence object.
EntryA ==
  Entry("A", Some([value |-> <<"N", "C", "S">>, length |-> 3]),
        <<Feature("Disulfide bond", "", 2, 3), Feature("Glycosylation", "N-linked", 1, 1)>>)
EntryB ==
  Entry("B", Some([value |-> <<"C", "T">>, length |-> 2]),
        <<Feature("Modified residue", "phospho", 2, 2)>>)
EntryPlain == Entry("X", Some([value |-> <<>>, length |-> 0]), <<>>)
EntryNegative ==
  Entry("N", Some([value |-> <<>>, length |-> -1]),
        <<Feature("Glycosylation", "O-linked", 1, 1)>>)
EntryMismatch ==
  Entry("M", Some([value |-> <<"N", "C">>, length |-> 3]),
        <<Feature("Glycosylation", "N-linked", 1, 1)>>)
EntryNoSequence == Entry("U", Null, <<>>)
InvalidEntries == {EntryNegative, EntryMismatch, EntryNoSequence}

\* Whether an entry is a structurally sound protein record.
ValidEntry(e) ==
  /\ e.sequence /= Null
  /\ e.sequence[1].length >= 0
  /\ e.sequence[1].value = <<>> \/ Len(e.sequence[1].value) = e.sequence[1].length

\* What one page fetch (lines 468-474) can end in.  kind is
\*   "network"    fetch rejected          "http"  response not ok
\*   "noResults"  a body without results  "page"  a body with results
\* hint is the x-total-results header as a number (0: none), link the class of
\* the link header.
Response(kind, results, hint, link) ==
  [kind |-> kind, results |-> results, hint |-> hint, link |-> link]
FullResults == [k \in 1..size |-> IF k = 1 THEN EntryA ELSE EntryPlain]
TotalHints == {0, 250}
InvalidRecordResponses ==
  {Response("page", <<EntryA, e, EntryB>>, 0, "none") : e \in InvalidEntries}
FinalResponses ==
  {Response("page", FullResults, h, "none") : h \in TotalHints}
    \cup {Response("page", <<EntryA, EntryB>>, 0, l) : l \in {"none", "next"}}
    \cup InvalidRecordResponses
    \cup {Response("page", <<>>, 0, "none"), Response("page", FullResults, 0, "other")}
FailedResponses ==
  {Response("network", <<>>, 0, "none"), Response("http", <<>>, 0, "none"),
   Response("noResults", <<>>, 0, "none")}
MoreResponses == {Response("page", FullResults, h, "next") : h \in TotalHints}
Responses == FinalResponses \cup FailedResponses \cup MoreResponses

\* A FASTA text with two records; the first holds an N-X-S motif.
FastaText ==
  <<[header |-> TRUE, id |-> "sp|P0001", gene |-> "FA"],
    [header |-> FALSE, residues |-> <<"N", "C", "S">>],
    [header |-> FALSE, residues |-> <<"A">>],
    [header |-> TRUE, id |-> "sp|P0002", gene |-> "FB"],
    [header |-> FALSE, residues |-> <<"C", "P">>]>>

\* The parameter values of lines 303-310 as the record of line 438.
InitialParams ==
  [ssWindowSize |-> 50, ssThreshold |-> Num(3), ssSmoothing |-> 5,
   glycoWindowSize |-> 50, glycoThreshold |-> Num(3), glycoSmoothing |-> 5]

\* Lines 478-479 for each response of the source, under the initial
\* parameters: what json.results.map(parseUniProtEntry) and processBatchList
\* give (a table, so that a page is parsed and analysed once).
PageOutcome ==
  [resp \in Responses |->
     LET parsed == parseAll(resp.results)
     IN  [parsed |-> parsed,
          chunk |-> processBatchList(parsed.proteins, InitialParams)]]
\* The threshold values the tuning specification moves the two threshold
\* sliders to (lines 764 and 770: min 1, max 10, step 0.5), the parameter
\* records that result, and the analysed rows of each page under each.
TuningThresholds == {Num(1), Num(3)}
TunedParams ==
  {[InitialParams EXCEPT !.ssThreshold = s, !.glycoThreshold = g] :
     s \in TuningThresholds, g \in TuningThresholds} \ {InitialParams}
TunedOutcome ==
  [p \in TunedParams |->
     [resp \in Responses |-> processBatchList(PageOutcome[resp].parsed.proteins, p)]]

\* The parameters processBatchList reads when the run calls it (line 438):
\* the state values of the render the run's handler was created in.
closureParamsLive(me) == params
closureParams(me) == me.params


\* Line 510.
BatchError(cause) == [kind |-> "batch", cause |-> cause]

Init ==
  /\ IdleBatch /\ IdleLookup /\ IdleCalib /\ IdleDensity /\ DefaultParams

\* Lines 447-468: the Run button (rendered only while batchStatus is "idle",
\* line 882), up to the first await fetch.
runWholeOrganismAnalysis ==
  /\ batchStatus = "idle"
  /\ Len(runs) < MaxRuns
  /\ batchStatus' = "processing"
  /\ batchProgress' = Num(0)
  /\ processedCount' = 0
  /\ batchResults' = <<>>
  /\ error' = Null
  /\ runs' = Append(runs,
       [pc |-> "fetch", params |-> params, allReportRows |-> <<>>, nextCursor |-> Null,
        totalProcessed |-> 0, pages |-> 0,
        progress |-> Num(0)])   \* progress: what the run last passed to setBatchProgress
  /\ UNCHANGED <<fastaReads, downloads, geneName, loading, lookups, calibVars, paramVars,
                 densityVars>>

\* Lines 508-512: the catch block of run r.
runFails(r, cause) ==
  /\ error' = Some(BatchError(cause))
  /\ batchStatus' = "idle"
  /\ runs' = [runs EXCEPT ![r] = [@ EXCEPT !.pc = "failed"]]
  /\ UNCHANGED <<batchProgress, processedCount, batchResults, downloads>>

\* Lines 468-506: the awaited fetch of run r settles with resp, and the run
\* goes on to its next await or to its end.
pageSettles(r, resp) ==
  /\ runs[r].pc = "fetch"
  \* the source serves a run at most MaxPages pages
  /\ (resp.kind = "page" /\ hasMoreAfter(Len(resp.results), resp.link)) =>
       runs[r].pages + 1 < MaxPages
  /\ LET me == runs[r]
         parsed == PageOutcome[resp].parsed
         p == closureParams(me)
         chunk == IF p = InitialParams THEN PageOutcome[resp].chunk
                  ELSE IF p \in TunedParams THEN TunedOutcome[p][resp]
                  ELSE processBatchList(parsed.proteins, p)
     IN  IF resp.kind = "network" THEN runFails(r, "network")
         ELSE IF resp.kind = "http" THEN runFails(r, "API Error")
         ELSE IF resp.kind = "noResults" \/ parsed.threw THEN runFails(r, "TypeError")
         ELSE IF chunk.threw THEN runFails(r, "RangeError")
         ELSE
           LET allReportRows == me.allReportRows \o chunk.rows
               totalProcessed == me.totalProcessed + Len(parsed.proteins)
               progress == progressOf(totalProcessed, totalOf(resp.hint))
               hasMore == hasMoreAfter(Len(resp.results), resp.link)
               after == [me EXCEPT !.allReportRows = allReportRows,
                                   !.totalProcessed = totalProcessed,
                                   !.pages = @ + 1, !.progress = progress]
           IN  /\ processedCount' = totalProcessed
               /\ batchProgress' = progress
               /\ IF hasMore
                  THEN /\ runs' = [runs EXCEPT ![r] =
                            [after EXCEPT !.nextCursor = Some(after.pages)]]
                       /\ UNCHANGED <<batchStatus, batchResults, downloads>>
                  ELSE /\ runs' = [runs EXCEPT ![r] = [after EXCEPT !.pc = "completed"]]
                       /\ batchStatus' = "completed"
                       /\ batchResults' = allReportRows
                       /\ downloads' = Append(downloads,
                            [by |-> "run", id |-> r, rows |-> allReportRows])
               /\ UNCHANGED error
  /\ UNCHANGED <<fastaReads, geneName, loading, lookups, calibVars, paramVars, densityVars>>

\* Lines 515-518 and 530: a file is chosen in the FASTA input (rendered only
\* while batchStatus is "idle", line 882) and its read starts.
handleFastaUpload ==
  /\ batchStatus = "idle"
  /\ Len(fastaReads) < MaxUploads
  /\ fastaReads' = Append(fastaReads, [text |-> FastaText, params |-> params,
                                       loaded |-> FALSE])
  /\ UNCHANGED <<batchStatus, batchProgress, batchResults, processedCount, runs, downloads,
                 lookupVars, calibVars, paramVars, densityVars>>

\* Lines 519-529: reader.onload of read f.
fastaOnload(f) ==
  /\ ~fastaReads[f].loaded
  /\ LET proteins == parseFasta(fastaReads[f].text)
         results == processBatchList(proteins, fastaReads[f].params).rows
     IN  /\ batchResults' = results
         /\ processedCount' = Len(proteins)
         /\ batchProgress' = Num(100)
         /\ batchStatus' = "completed"
         /\ downloads' = Append(downloads, [by |-> "fasta", id |-> f, rows |-> results])
  /\ fastaReads' = [fastaReads EXCEPT ![f] = [@ EXCEPT !.loaded = TRUE]]
  /\ UNCHANGED <<runs, lookupVars, calibVars, paramVars, densityVars>>

\* Lines 945-953: the Start New Analysis link, rendered while completed.
startNewAnalysis ==
  /\ batchStatus = "completed"
  /\ batchStatus' = "idle"
  /\ UNCHANGED <<batchProgress, batchResults, processedCount, runs, fastaReads, downloads,
                 lookupVars, calibVars, paramVars, densityVars>>

Next ==
  \/ runWholeOrganismAnalysis
  \/ \E r \in DOMAIN runs : \E resp \in Responses : pageSettles(r, resp)
  \/ handleFastaUpload
  \/ \E f \in DOMAIN fastaReads : fastaOnload(f)
  \/ startNewAnalysis

Spec == Init /\ [][Next]_vars

\* The batch specification with every awaited page fetch settling sooner or
\* later (line 468: the promise of fetch resolves or rejects).
FairSpec ==
  /\ Spec
  /\ \A r \in 1..MaxRuns :
       WF_vars(\E resp \in Responses : r \in DOMAIN runs /\ pageSettles(r, resp))

\* ----------------------------------------------- parameter file specification
\* The decimal digits, as characters.
DigitChars == <<"0", "1", "2", "3", "4", "5", "6", "7", "8", "9">>
DigitValue(ch) == CHOOSE d \in 0..9 : DigitChars[d + 1] = ch

RECURSIVE GCD(_, _)
GCD(a, b) == IF b = 0 THEN a ELSE GCD(b, a % b)
\* A number in lowest terms.
Reduce(x) == LET g == GCD(x.num, x.den) IN [num |-> x.num \div g, den |-> x.den \div g]

\* The decimal text JSON.stringify writes for a non-negative number with a
\* finite decimal expansion (line 346): "50", "1.5".
RECURSIVE IntDigits(_)
IntDigits(n) ==
  IF n < 10 THEN <<DigitChars[n + 1]>>
  ELSE IntDigits(n \div 10) \o <<DigitChars[(n % 10) + 1]>>
RECURSIVE FracDigits(_, _)
FracDigits(rem, den) ==
  IF rem = 0 THEN <<>>
  ELSE <<DigitChars[((rem * 10) \div den) + 1]>> \o FracDigits((rem * 10) % den, den)
NumberToString(x) ==
  LET frac == FracDigits(x.num % x.den, x.den)
  IN  IntDigits(x.num \div x.den) \o (IF frac = <<>> THEN <<>> ELSE <<".">> \o frac)

\* The number JSON.parse reads from such a text (line 362).
RECURSIVE DigitsValue(_, _)
DigitsValue(chars, n) ==
  IF n = 0 THEN 0 ELSE DigitsValue(chars, n - 1) * 10 + DigitValue(chars[n])
ParseNumber(chars) ==
  LET dots == {k \in DOMAIN chars : chars[k] = "."}
      dot == IF dots = {} THEN Len(chars) + 1 ELSE CHOOSE k \in dots : TRUE
      whole == SubSeq(chars, 1, dot - 1)
      frac == SubSeq(chars, dot + 1, Len(chars))
  IN  Reduce(Frac(DigitsValue(whole, Len(whole)) * 10^Len(frac)
                    + DigitsValue(frac, Len(frac)),
                  10^Len(frac)))

\* Lines 342-345: the members of the exported object, in their order.
ParamKeys ==
  <<"ssWindowSize", "ssThreshold", "ssSmoothing",
    "glycoWindowSize", "glycoThreshold", "glycoSmoothing">>
\* The value of a parameter as a number (the thresholds are held as fractions).
ParamNumber(p, key) ==
  IF key \in {"ssThreshold", "glycoThreshold"} THEN p[key] ELSE Num(p[key])
\* The parameter value a number is, as the state holds it.
ParamValue(key, x) ==
  IF key \in {"ssThreshold", "glycoThreshold"} \/ x.den /= 1 THEN x ELSE x.num

\* Line 346: JSON.stringify(params, null, 2), as the list of its members
\* <<key, text of the value>>.
JsonStringify(p) ==
  [k \in DOMAIN ParamKeys |->
     <<ParamKeys[k], NumberToString(ParamNumber(p, ParamKeys[k]))>>]
\* Line 362: JSON.parse of such a text: the object's members by key.
JsonParse(text) ==
  [key \in {text[k][1] : k \in DOMAIN text} |->
     ParseNumber(text[CHOOSE k \in DOMAIN text : text[k][1] = key][2])]
\* Lines 363-368: if (params.key) set(params.key): what the parameter key is
\* after the import, current being its value before.  A number is truthy
\* unless it is 0.
importedValue(obj, key, current) ==
  IF key \in DOMAIN obj /\ obj[key].num /= 0 THEN ParamValue(key, obj[key]) ELSE current

\* The values the sliders are moved to (lines 763-774: window 10..200 step 5,
\* threshold 1..10 step 0.5, smoothing 0..20 step 1).
SliderWindowSizes == {10, 50, 200}
SliderThresholds == {Frac(3, 2), Num(3)}
SliderSmoothings == {0, 5}

InitParams == Init

\* Lines 276-292 and 763-774: a slider moves, onChange(Number(value)).
setParameter ==
  /\ \/ \E v \in SliderWindowSizes : ssWindowSize' = v
          /\ UNCHANGED <<ssThreshold, ssSmoothing, glycoWindowSize, glycoThreshold, glycoSmoothing>>
     \/ \E v \in SliderThresholds : ssThreshold' = v
          /\ UNCHANGED <<ssWindowSize, ssSmoothing, glycoWindowSize, glycoThreshold, glycoSmoothing>>
     \/ \E v \in SliderSmoothings : ssSmoothing' = v
          /\ UNCHANGED <<ssWindowSize, ssThreshold, glycoWindowSize, glycoThreshold, glycoSmoothing>>
     \/ \E v \in SliderWindowSizes : glycoWindowSize' = v
          /\ UNCHANGED <<ssWindowSize, ssThreshold, ssSmoothing, glycoThreshold, glycoSmoothing>>
     \/ \E v \in SliderThresholds : glycoThreshold' = v
          /\ UNCHANGED <<ssWindowSize, ssThreshold, ssSmoothing, glycoWindowSize, glycoSmoothing>>
     \/ \E v \in SliderSmoothings : glycoSmoothing' = v
          /\ UNCHANGED <<ssWindowSize, ssThreshold, ssSmoothing, glycoWindowSize, glycoThreshold>>
  /\ UNCHANGED <<calibVars, densityVars, lookupVars, batchVars>>

\* Lines 341-354: Save Params; the browser saves the text as a file (the file
\* is not replaced while a read of it is under way).
exportParameters ==
  /\ IF paramFile = Null THEN TRUE ELSE ~paramFile[1].reading
  /\ paramFile' = Some([text |-> JsonStringify(params), from |-> params, reading |-> FALSE])
  /\ UNCHANGED <<data, calibOut, paramVars, densityVars, lookupVars, batchVars>>

\* Lines 356-359 and 374: the saved file is chosen in the Load Params input
\* and its read starts.
importParameters ==
  /\ paramFile /= Null /\ ~paramFile[1].reading
  /\ paramFile' = Some([paramFile[1] EXCEPT !.reading = TRUE])
  /\ UNCHANGED <<data, calibOut, paramVars, densityVars, lookupVars, batchVars>>

\* Lines 360-373: reader.onload of that read.
importOnload ==
  /\ paramFile /= Null /\ paramFile[1].reading
  /\ LET obj == JsonParse(paramFile[1].text)
     IN  /\ ssWindowSize' = importedValue(obj, "ssWindowSize", ssWindowSize)
         /\ ssThreshold' = importedValue(obj, "ssThreshold", ssThreshold)
         /\ ssSmoothing' = importedValue(obj, "ssSmoothing", ssSmoothing)
         /\ glycoWindowSize' = importedValue(obj, "glycoWindowSize", glycoWindowSize)
         /\ glycoThreshold' = importedValue(obj, "glycoThreshold", glycoThreshold)
         /\ glycoSmoothing' = importedValue(obj, "glycoSmoothing", glycoSmoothing)
  /\ paramFile' = Some([paramFile[1] EXCEPT !.reading = FALSE])
  /\ UNCHANGED <<data, calibOut, densityVars, lookupVars, batchVars>>

NextParams == setParameter \/ exportParameters \/ importParameters \/ importOnload

SpecParams == InitParams /\ [][NextParams]_vars
\* --------------------------------------------------- tuning specification
\* One execution with whole-organism runs and, at any moment, also while a
\* run awaits a page, the threshold sliders and the parameter file.
\* Lines 764 and 770: a threshold slider moves.
setThreshold ==
  /\ \/ \E v \in TuningThresholds : ssThreshold' = v /\ UNCHANGED glycoThreshold
     \/ \E v \in TuningThresholds : glycoThreshold' = v /\ UNCHANGED ssThreshold
  /\ UNCHANGED <<ssWindowSize, ssSmoothing, glycoWindowSize, glycoSmoothing,
                 calibVars, densityVars, lookupVars, batchVars>>

InitTuning == Init

NextTuning ==
  \/ runWholeOrganismAnalysis
  \/ \E r \in DOMAIN runs : \E resp \in Responses : pageSettles(r, resp)
  \/ setThreshold
  \/ exportParameters
  \/ importParameters
  \/ importOnload

SpecTuning == InitTuning /\ [][NextTuning]_vars


\* ------------------------------------------------------------ claims C1-C3
\* The sites whose 0-based index p-1 lies in the window [i-half, i+half]
\* clipped to [0, length-1].
ClippedWindowCount(positions, length, windowSize, i) ==
  LET half == windowSize \div 2
      lo == Max(0, i - half)
      hi == Min(length - 1, i + half)
  IN  Cardinality({q \in DOMAIN positions : positions[q] - 1 >= lo /\ positions[q] - 1 <= hi})

\* C1: with smoothing = 0 and length >= 1, calculateDensity returns at every
\* 0-based index i the integer count of the 1-based positions p whose index
\* p-1 lies in [max(0, i-half), min(length-1, i+half)].
C1_ExactClippedCount ==
  (densityRet.done /\ densityArgs.smoothingFactor = 0 /\ densityArgs.length >= 1) =>
    /\ Len(densityRet.value) = densityArgs.length
    /\ \A i \in 0..(densityArgs.length - 1) :
         densityRet.value[i + 1] =
           Num(ClippedWindowCount(densityArgs.positions, densityArgs.length,
                                  densityArgs.windowSize, i))

\* The two curves the zone mask is defined over, for a protein and parameters.
SsCurve(pr, p) == calculateDensity(pr.ssBonds, pr.length, p.ssWindowSize, p.ssSmoothing)
NCurve(pr, p) == calculateDensity(pr.nLinked, pr.length, p.glycoWindowSize, p.glycoSmoothing)
BothClear(pr, p, i) ==
  /\ GE(SsCurve(pr, p)[i + 1], p.ssThreshold)
  /\ GE(NCurve(pr, p)[i + 1], p.glycoThreshold)

\* C2: the zone mask of analyzeProtein and the zone flag of the per-residue
\* export are true at index i exactly when ssDensity[i] >= ssThreshold and
\* nDensity[i] >= glycoThreshold, and the mask is the same when the O-linked
\* and phosphorylation positions are taken away.
C2_ZoneMaskIffBothThresholds ==
  /\ (calibOut.op = "analyze" /\ ~calibOut.result.threw) =>
       LET pr == calibOut.protein
           p == calibOut.params
           mask == calibOut.result.mask
           bare == [pr EXCEPT !.oLinked = <<>>, !.phosphorylation = <<>>]
       IN  /\ Len(mask) = pr.length
           /\ \A i \in 0..(pr.length - 1) : mask[i + 1] <=> BothClear(pr, p, i)
           /\ analyzeProtein(bare, p).mask = mask
  /\ calibOut.op = "export" =>
       LET pr == data[1]
       IN  /\ Len(calibOut.rows) = pr.length
           /\ \A i \in 0..(pr.length - 1) :
                calibOut.rows[i + 1].isOverlap <=> BothClear(pr, params, i)

\* C2 witness: an analysis of a protein that has O-linked and phosphorylation
\* sites whose mask is true at one residue and false at another.
C2_Witness ==
  /\ calibOut.op = "analyze"
  /\ calibOut.protein.oLinked /= <<>>
  /\ calibOut.protein.phosphorylation /= <<>>
  /\ \E i, j \in DOMAIN calibOut.result.mask :
       calibOut.result.mask[i] /\ ~calibOut.result.mask[j]

\* The maximal contiguous runs of true of a mask, as 0-based half-open
\* [start, end) pairs.
MaximalRuns(mask) ==
  LET n == Len(mask)
      on(i) == i >= 0 /\ i < n /\ mask[i + 1]
      starts == {s \in 0..(n - 1) : on(s) /\ ~on(s - 1)}
      endOf(s) == CHOOSE e \in (s + 1)..n : ~on(e) /\ \A k \in s..(e - 1) : on(k)
  IN  {[start |-> s, end |-> endOf(s)] : s \in starts}

\* The full per-residue zone mask of the displayed protein.
FullMask ==
  IF data = Null \/ data[1].length <= 0 THEN <<>>
  ELSE isHighDensityZone(SsCurve(data[1], params), NCurve(data[1], params), data[1].length,
                         ssThreshold, glycoThreshold)

\* A region as reported: 1-based inclusive first .. last for the run [start, end).
Reported(reg) == [first |-> reg.start + 1, last |-> reg.end]

\* C3: for every length, also above 600 residues, the reported regions are
\* exactly the maximal runs of true of the full per-residue mask, as many as
\* there are runs; the chart sampling step changes neither.
C3_RegionsAreFullMaskRuns ==
  /\ Len(overlapRegions) = Cardinality(MaximalRuns(FullMask))
  /\ {Reported(overlapRegions[k]) : k \in DOMAIN overlapRegions}
       = {Reported(r) : r \in MaximalRuns(FullMask)}

\* ------------------------------------------------------------ claims C7-C9
Finished(l) == lookups[l].pc = "done"
LastKind(l) == IF lookups[l].last = Null THEN "none" ELSE lookups[l].last[1].kind

\* C7: when every attempt fails with a transient error the lookup makes
\* exactly 3 fetches (1 + maxRetries) with exactly 2 waits, one between each
\* two consecutive attempts and none after the last; no lookup ever makes more
\* than 3 fetches; a successful attempt returns the protein with no further
\* attempt.
C7_ThreeAttemptsTwoWaits ==
  \A l \in DOMAIN lookups :
    LET me == lookups[l]
    IN  /\ me.fetches <= maxRetries + 1
        /\ (me.pc = "done" /\ me.onlyFailures) =>
             me.fetches = maxRetries + 1 /\ me.delays = maxRetries
        /\ LastKind(l) = "found" =>
             me.pc = "done" /\ me.result /= Null /\ me.fetches = me.settled

\* C8: a successful response with an empty result set ends the lookup on that
\* attempt, whichever attempt it is: no fetch follows it and no delay is
\* awaited after it (the only delays are those between the earlier attempts).
C8_NoMatchReturnsAtOnce ==
  \A l \in DOMAIN lookups :
    LET me == lookups[l]
    IN  LastKind(l) = "noMatch" =>
          /\ me.pc = "done" /\ me.result = Null
          /\ me.fetches = me.settled
          /\ me.delays = me.settled - 1

\* C8 witness: a lookup whose second attempt found no match, after a first
\* attempt that failed and one delay.
C8_Witness ==
  \E l \in DOMAIN lookups :
    /\ lookups[l].settled = 2 /\ LastKind(l) = "noMatch"
    /\ Finished(l) /\ lookups[l].delays = 1

\* A finished lookup that ended as terminal NotFound: it returned null from
\* the catch block with retries left (line 133).
TreatedAsNotFound(l) ==
  Finished(l) /\ lookups[l].result = Null /\ lookups[l].attempt <= maxRetries
\* A finished lookup that gave up after exhausting its retries (line 135).
Exhausted(l) ==
  Finished(l) /\ lookups[l].result = Null /\ lookups[l].attempt > maxRetries

\* C9: a lookup is treated as terminal NotFound exactly when the source
\* answered successfully with no match (never after an HTTP or network error,
\* whatever its text), and the caller gets a different outcome for NotFound
\* than for a transient failure that exhausted its retries.
C9_NotFoundDistinctFromTransient ==
  /\ \A l \in DOMAIN lookups :
       TreatedAsNotFound(l) <=> (Finished(l) /\ LastKind(l) = "noMatch")
  /\ \A a, b \in DOMAIN lookups :
       (TreatedAsNotFound(a) /\ Exhausted(b)) => lookups[a].result /= lookups[b].result

\* ------------------------------------------------------- claims C4-C6, C10
\* A step in which run r ends (reaches line 504 or the catch block).
RunEnds(r) == runs[r].pc = "fetch" /\ runs'[r].pc \in {"completed", "failed"}
\* A step in which the read of FASTA file f is loaded (lines 519-529).
FastaLoads(f) == ~fastaReads[f].loaded /\ fastaReads'[f].loaded
\* Some run is suspended at a page fetch.
RunInFlight == \E r \in DOMAIN runs : runs[r].pc = "fetch"

\* The transitions of batchStatus the state machine has.
StatusStep(from, to) ==
  \/ from = to
  \/ from = "idle" /\ to = "processing"
  \/ from = "processing" /\ to = "completed"
  \/ from = "processing" /\ to = "idle" /\ error' /= Null
  \/ /\ from = "completed" /\ to = "idle"      \* only by Start New Analysis
     /\ UNCHANGED <<runs, fastaReads, error>>

\* C4: in every execution batchStatus moves only Idle -> Processing,
\* Processing -> Completed, Processing -> Idle (with an error reported) and,
\* by the user's reset, Completed -> Idle (a FASTA load passes through
\* Processing on its way to Completed); Completed is never entered from Idle;
\* and the end of one run or upload never changes the status while another,
\* later started run is still in flight.
C4_StatusStateMachine ==
  [][/\ IF \E f \in DOMAIN fastaReads : FastaLoads(f)
        THEN StatusStep(batchStatus, "processing") /\ batchStatus' = "completed"
        ELSE StatusStep(batchStatus, batchStatus')
     /\ \A r \in DOMAIN runs :
          (RunEnds(r) /\ batchStatus' /= batchStatus) => r = Len(runs)
     /\ \A f \in DOMAIN fastaReads :
          (FastaLoads(f) /\ batchStatus' /= batchStatus) => ~RunInFlight
    ]_vars

\* C5: when a page fetch of a run fails, the state right after the failure has
\* batchStatus Idle, one error message set and batchResults empty, and the
\* report sink is not invoked then or ever for that run.
C5_FailureDiscardsRows ==
  [][/\ \A r \in DOMAIN runs :
          (runs[r].pc = "fetch" /\ runs'[r].pc = "failed") =>
            /\ batchStatus' = "idle"
            /\ error' \in {Some(BatchError(c)) :
                             c \in {"network", "API Error", "TypeError", "RangeError"}}
            /\ batchResults' = <<>>
            /\ downloads' = downloads
     /\ \A d \in DOMAIN downloads :
          downloads[d].by = "run" => runs[downloads[d].id].pc = "completed"
    ]_vars

\* The rows analyzeProtein gives for the structurally valid records of a page.
RowsOfValid(resp, p) ==
  processBatchList(parseAll(SelectSeq(resp.results, ValidEntry)).proteins, p).rows

\* C6: a page holding a structurally invalid record (negative length, sequence
\* length disagreeing with length, undecodable entry) does not abort the run:
\* the record is skipped and the run, this being its last page, completes and
\* delivers its earlier rows followed by the rows of the page's valid records.
C6_InvalidRecordSkipped ==
  [][\A r \in DOMAIN runs : \A resp \in InvalidRecordResponses :
       pageSettles(r, resp) =>
         /\ runs'[r].pc = "completed"
         /\ batchStatus' = "completed"
         /\ runs'[r].allReportRows
              = runs[r].allReportRows \o RowsOfValid(resp, runs[r].params)
         /\ downloads' = Append(downloads,
              [by |-> "run", id |-> r, rows |-> runs'[r].allReportRows])
    ]_vars

\* C10: from page to page of one run the progress value the run sets never
\* decreases, whatever page sizes and total-count hints the source returns.
C10_ProgressMonotone ==
  [][\A r \in DOMAIN runs : GE(runs'[r].progress, runs[r].progress)]_vars

\* ----------------------------------------------------------- claims C11-C14
\* C11: while batchStatus is Processing and a run still has pages to fetch
\* (it is suspended at a page fetch), the progress value that run has set is
\* strictly below 100, whatever total-count hints the source returns.
C11_FullProgressOnlyAtCompletion ==
  \A r \in DOMAIN runs :
    (batchStatus = "processing" /\ runs[r].pc = "fetch") =>
      ~GE(runs[r].progress, Num(100))

\* A page response that is no failure: a body with results, all of them
\* structurally sound records.
SoundPage(resp) ==
  resp.kind = "page" /\ \A k \in DOMAIN resp.results : ValidEntry(resp.results[k])
\* The source's final page: fewer records than the page size, or no "next"
\* continuation.
FinalPage(resp) == Len(resp.results) < size \/ resp.link /= "next"

RowsInOrder(parts) ==
  LET idx == UNION {{<<k, i>> : i \in DOMAIN parts[k]} : k \in DOMAIN parts}
      Before(a, b) == a[1] < b[1] \/ (a[1] = b[1] /\ a[2] < b[2])
  IN  [n \in 1..Cardinality(idx) |->
         LET at == CHOOSE a \in idx : Cardinality({b \in idx : Before(b, a)}) = n - 1
         IN  parts[at[1]][at[2]]]
\* analyzeProtein's rows for every record of a page, in the page's order,
\* under the parameters p.
RowsOfPage(resp, p) ==
  RowsInOrder([k \in DOMAIN resp.results |->
                 analyzeProtein(parseUniProtEntry(resp.results[k]).protein[1], p).rows])

\* C13: every page a run takes in extends the run's rows by analyzeProtein's
\* rows for each record of the page, in the page's order, and changes none of
\* the rows already there; when the run completes, the rows it has gathered,
\* page after page, are what it stores in batchResults and hands to the
\* report sink.
C13_RowsAccumulateInOrder ==
  [][\A r \in DOMAIN runs :
       /\ \E n \in 0..Len(runs'[r].allReportRows) :
            SubSeq(runs'[r].allReportRows, 1, n) = runs[r].allReportRows
       /\ \A resp \in Responses :
            (pageSettles(r, resp) /\ runs'[r].pc /= "failed") =>
              runs'[r].allReportRows
                = runs[r].allReportRows \o RowsOfPage(resp, runs[r].params)
       /\ (runs[r].pc = "fetch" /\ runs'[r].pc = "completed") =>
            /\ batchResults' = runs'[r].allReportRows
            /\ downloads' = Append(downloads,
                 [by |-> "run", id |-> r, rows |-> runs'[r].allReportRows])
    ]_vars

\* C13 witness: a run completed after two pages, with rows of both pages
\* stored and handed to the sink.
C13_Witness ==
  \E r \in DOMAIN runs : \E d \in DOMAIN downloads :
    /\ runs[r].pc = "completed" /\ runs[r].pages = 2
    /\ Len(runs[r].allReportRows) = 3
    /\ batchResults = runs[r].allReportRows
    /\ downloads[d] = [by |-> "run", id |-> r, rows |-> runs[r].allReportRows]

\* C14: at most one run is suspended at a page fetch at any time, and
\* batchStatus is Processing whenever a run is.
C14_OneRunInFlight ==
  /\ Cardinality({r \in DOMAIN runs : runs[r].pc = "fetch"}) <= 1
  /\ RunInFlight => batchStatus = "processing"

\* ---------------------------------------------------------------- claim C15
\* C15: when the parameter file saved by exportParameters is loaded by
\* importParameters, whatever the six parameters hold at that moment, all six
\* are afterwards exactly the values the file was saved from.
C15_ParameterRoundTrip ==
  [][(paramFile /= Null /\ paramFile[1].reading /\ ~paramFile'[1].reading) =>
       params' = paramFile[1].from]_vars


\* ---------------------------------------------------------------- claim C16
\* The indices j of [i-r, i+r] that lie in [0, length-1].
SmoothIndices(length, r, i) == {j \in (i - r)..(i + r) : j >= 0 /\ j <= length - 1}
\* The sum of raw[j] over the indices j of the set js.
SumOfRaw(raw, js) == Cardinality(UNION {{<<j, c>> : c \in 1..raw[j + 1]} : j \in js})
\* The raw curve of the call under test.
RawOfCall == rawDensity(densityArgs.positions, densityArgs.length, densityArgs.windowSize)

\* C16: with smoothing r > 0, calculateDensity returns at every index i the
\* mean of raw[j] over the indices j of [i-r, i+r] that lie in [0, length-1],
\* the divisor being the number of those indices (at least 1); so no value is
\* negative, and a constant raw curve is returned unchanged.
C16_SmoothingIsClippedMean ==
  (densityRet.done /\ densityArgs.smoothingFactor > 0 /\ densityArgs.length >= 1) =>
    LET length == densityArgs.length
        r == densityArgs.smoothingFactor
        out == densityRet.value
    IN  /\ Len(out) = length
        /\ \A i \in 0..(length - 1) :
             LET js == SmoothIndices(length, r, i)
             IN  /\ Cardinality(js) >= 1
                 /\ EQ(out[i + 1], Frac(SumOfRaw(RawOfCall, js), Cardinality(js)))
                 /\ GE(out[i + 1], Num(0))
        /\ \A c \in 0..MaxSites :
             (\A k \in 1..length : RawOfCall[k] = c) =>
               \A k \in 1..length : EQ(out[k], Num(c))

\* C16 witness: a smoothed curve with an index whose window is cut by the
\* sequence boundary and holds a site, and an index whose window is whole.
C16_Witness ==
  /\ densityRet.done /\ densityArgs.smoothingFactor > 0
  /\ \E i \in 0..(densityArgs.length - 1) :
       /\ Cardinality(SmoothIndices(densityArgs.length, densityArgs.smoothingFactor, i))
            < 2 * densityArgs.smoothingFactor + 1
       /\ GT(densityRet.value[i + 1], Num(0))
  /\ \E i \in 0..(densityArgs.length - 1) :
       Cardinality(SmoothIndices(densityArgs.length, densityArgs.smoothingFactor, i))
         = 2 * densityArgs.smoothingFactor + 1


\* ----------------------------------------------------------- claims C17-C20
\* The site lists of a protein in the order of the report, each with its type
\* code and label.
SiteLists(pr) ==
  <<[sites |-> pr.nLinked, code |-> "N", label |-> "N-Linked"],
    [sites |-> pr.oLinked, code |-> "O", label |-> "O-Linked"],
    [sites |-> pr.phosphorylation, code |-> "P", label |-> "Phospho"]>>
\* The k-th site of the report: <<position, code, label>>, counting through
\* the N-linked, then the O-linked, then the phosphorylation list.
SiteAt(pr, k) ==
  LET ls == SiteLists(pr)
      n1 == Len(ls[1].sites)
      n2 == Len(ls[2].sites)
  IN  IF k <= n1 THEN <<ls[1].sites[k], ls[1].code, ls[1].label>>
      ELSE IF k <= n1 + n2 THEN <<ls[2].sites[k - n1], ls[2].code, ls[2].label>>
      ELSE <<ls[3].sites[k - n1 - n2], ls[3].code, ls[3].label>>
SiteCount(pr) == Len(pr.nLinked) + Len(pr.oLinked) + Len(pr.phosphorylation)
\* An analysis that returned.
Analyzed == calibOut.op = "analyze" /\ ~calibOut.result.threw

\* C17: analyzeProtein emits one row per site: the N-linked sites in their
\* list's order (site id 'N' + position, type N-Linked), then the O-linked
\* sites ('O', O-Linked), then the phosphorylation sites ('P', Phospho), and
\* no other row.
C17_RowsPerSiteInOrder ==
  Analyzed =>
    LET pr == calibOut.protein
        rows == calibOut.result.rows
    IN  /\ Len(rows) = SiteCount(pr)
        /\ \A k \in 1..SiteCount(pr) :
             /\ rows[k].glycosite = <<SiteAt(pr, k)[2], SiteAt(pr, k)[1]>>
             /\ rows[k].type = SiteAt(pr, k)[3]

\* C17 witness: an analysis of a protein with sites of all three types, its
\* phosphorylation sites not in ascending order.
C17_Witness ==
  /\ Analyzed
  /\ calibOut.protein.nLinked /= <<>> /\ calibOut.protein.oLinked /= <<>>
  /\ Len(calibOut.protein.phosphorylation) = 2
  /\ calibOut.protein.phosphorylation[1] > calibOut.protein.phosphorylation[2]
  /\ Len(calibOut.result.rows) = 4


\* The site position of the k-th row of the analysis in calibOut.
RowPos(k) == SiteAt(calibOut.protein, k)[1]
\* pos lies within some annotated disulfide range of the protein, ends
\* included; no range list, or an empty one, holds no position.
WithinSomeRange(pr, pos) ==
  IF pr.ssBondRanges = Null THEN FALSE
  ELSE \E i \in 1..Len(pr.ssBondRanges) :
         pr.ssBondRanges[i].start <= pos /\ pos <= pr.ssBondRanges[i].end

\* C18: a row's inUniProtDisulfide is true exactly when the site's position
\* lies within at least one of the protein's disulfide ranges, both ends
\* included, and is false when the protein has no ranges.
C18_DisulfideFlagIffWithinRange ==
  Analyzed =>
    \A k \in 1..Len(calibOut.result.rows) :
      calibOut.result.rows[k].inUniProtDisulfide = WithinSomeRange(calibOut.protein, RowPos(k))

\* C18 witness: an analysis with one site on the last position of a range, so
\* flagged, and another between two ranges, so not flagged.
C18_Witness ==
  /\ Analyzed
  /\ Len(calibOut.protein.ssBondRanges) = 2
  /\ \E k \in 1..Len(calibOut.result.rows) :
       /\ calibOut.result.rows[k].inUniProtDisulfide
       /\ \E i \in 1..2 : calibOut.protein.ssBondRanges[i].end = RowPos(k)
  /\ \E k \in 1..Len(calibOut.result.rows) :
       /\ ~calibOut.result.rows[k].inUniProtDisulfide
       /\ RowPos(k) > calibOut.protein.ssBondRanges[1].end
       /\ RowPos(k) < calibOut.protein.ssBondRanges[2].start

\* C19: a row's inHighDensityZone is the zone mask's value at index
\* position - 1 when the position is within 1..length, and false when it is
\* not (a zero-length protein included); a site outside the sequence still
\* gets its row and the analysis does not fail.
C19_ZoneFlagIsMaskAtPosition ==
  (calibOut.op = "analyze" /\ calibOut.protein.length >= 0) =>
    /\ ~calibOut.result.threw
    /\ Len(calibOut.result.rows) = SiteCount(calibOut.protein)
    /\ \A k \in 1..Len(calibOut.result.rows) :
         calibOut.result.rows[k].inHighDensityZone =
           IF 1 <= RowPos(k) /\ RowPos(k) <= calibOut.protein.length
           THEN calibOut.result.mask[RowPos(k)]
           ELSE FALSE

\* C19 witness: an analysis with a site inside a high-density zone, flagged,
\* and a site past the end of the sequence, not flagged.
C19_Witness ==
  /\ Analyzed
  /\ \E k \in 1..Len(calibOut.result.rows) :
       /\ RowPos(k) > calibOut.protein.length
       /\ ~calibOut.result.rows[k].inHighDensityZone
  /\ \E k \in 1..Len(calibOut.result.rows) :
       /\ RowPos(k) <= calibOut.protein.length
       /\ calibOut.result.rows[k].inHighDensityZone


\* The sampled points among the chart points pts of a protein of that
\* length: all but the closing point of lines 561-563.
SampledPoints(pts, length) == SelectSeq(pts, LAMBDA pt : pt.pos < length)
\* The last sampled point of a non-empty chart shows a zone.
ZoneAtLastSample(pts, length) ==
  LET sampled == SampledPoints(pts, length)
  IN  sampled /= <<>> /\ GT(sampled[Len(sampled)].overlapHeight, Num(0))

\* C20: the reported regions are ordered by start and pairwise disjoint (each
\* region ends no later than the next one starts), every region has
\* end > start and lies within [0, length], and a region still open at the
\* last sampled residue is closed, at the end of the sequence.
C20_RegionsOrderedDisjointClosed ==
  data /= Null =>
    LET pts == chartData
        regions == overlapRegionsOf(pts)
        n == Len(regions)
    IN  /\ \A k \in 1..n :
             /\ regions[k].end > regions[k].start
             /\ regions[k].start >= 0
             /\ regions[k].end <= data[1].length
        /\ \A k \in 1..(n - 1) : regions[k].end <= regions[k + 1].start
        /\ ZoneAtLastSample(pts, data[1].length)
             => (n > 0 /\ regions[n].end = data[1].length)

\* C20 witness: a protein with two reported regions, the second one running
\* to the end of the sequence.
C20_Witness ==
  /\ data /= Null
  /\ LET pts == chartData
         regions == overlapRegionsOf(pts)
     IN  /\ Len(regions) = 2
         /\ regions[2].end = data[1].length
         /\ ZoneAtLastSample(pts, data[1].length)

\* ---------------------------------------------------------------- claim C21
\* The mask of a protein of that length that is true exactly on the residues
\* the regions cover, a region [start, end) covering the 0-based indices
\* start .. end - 1 (residues start + 1 .. end).
RebuiltMask(regions, length) ==
  [k \in 1..length |->
     \E q \in DOMAIN regions : regions[q].start <= k - 1 /\ k - 1 < regions[q].end]
\* The chart points of lines 546-563 for a protein whose zone mask is the given
\* one: the sampled indices, a positive overlapHeight exactly where the mask is
\* true, and the closing point.
PointsOfMask(mask) ==
  LET length == Len(mask)
      step == chartStep(length)
      n == CeilDiv(length, step)
      points == [k \in 1..n |->
                   [pos |-> (k - 1) * step,
                    overlapHeight |-> IF mask[(k - 1) * step + 1] THEN Num(1) ELSE Num(0)]]
  IN  IF length <= 0 THEN <<>>
      ELSE Append(points, [pos |-> length, overlapHeight |-> Num(0)])

\* C21: region extraction round-trips: the mask rebuilt from the reported
\* regions equals the protein's zone mask, and extracting the regions of the
\* rebuilt mask gives the same list of regions again.
C21_RegionExtractionRoundTrips ==
  (data /= Null /\ data[1].length > 0) =>
    LET regions == overlapRegions
        rebuilt == RebuiltMask(regions, data[1].length)
    IN  /\ rebuilt = FullMask
        /\ overlapRegionsOf(PointsOfMask(rebuilt)) = regions

\* ---------------------------------------------------------------- claim C22
\* The four curves the export computes (lines 381-384) and the two the
\* analysis builds its mask from (lines 55-56), for protein pr under p.
CurvesOf(pr, p) ==
  {SsCurve(pr, p), NCurve(pr, p),
   calculateDensity(pr.oLinked, pr.length, p.glycoWindowSize, p.glycoSmoothing),
   calculateDensity(pr.phosphorylation, pr.length, p.glycoWindowSize, p.glycoSmoothing)}

\* C22: for a length >= 0 every curve calculateDensity returns has exactly
\* length entries, the empty curve for length 0, and analyzeProtein on a
\* zero-length protein completes and returns one row per site, each with
\* inHighDensityZone = false.
C22_CurveHasLengthEntries ==
  (calibOut.op = "analyze" /\ calibOut.protein.length >= 0) =>
    LET pr == calibOut.protein
        res == calibOut.result
    IN  /\ \A curve \in CurvesOf(pr, calibOut.params) : Len(curve) = pr.length
        /\ pr.length = 0 =>
             /\ CurvesOf(pr, calibOut.params) = {<<>>}
             /\ ~res.threw
             /\ Len(res.rows) = SiteCount(pr)
             /\ \A k \in 1..Len(res.rows) : ~res.rows[k].inHighDensityZone

\* C22 witness: an analysis of a zero-length protein with sites of all three
\* types, which returned four rows, none in a zone.
C22_Witness ==
  /\ Analyzed
  /\ calibOut.protein.length = 0
  /\ calibOut.protein.ssBonds /= <<>>
  /\ Len(calibOut.result.rows) = 4
  /\ \A k \in 1..4 : ~calibOut.result.rows[k].inHighDensityZone


\* ---------------------------------------------------------------- claim C23
\* A protein record no analysis should accept: a negative length, or a
\* sequence text that is there and whose length is not the record's length.
InvalidProtein(pr) ==
  \/ pr.length < 0
  \/ pr.sequence /= <<>> /\ Len(pr.sequence) /= pr.length

\* C23: analyzeProtein ends in the error outcome, without rows, whenever the
\* protein's length is negative or its non-empty sequence disagrees with its
\* length, and returns rows normally for every other protein.
C23_InvalidProteinRejected ==
  calibOut.op = "analyze" =>
    IF InvalidProtein(calibOut.protein)
    THEN calibOut.result.threw /\ calibOut.result.rows = <<>>
    ELSE ~calibOut.result.threw /\ Len(calibOut.result.rows) = SiteCount(calibOut.protein)


\* ---------------------------------------------------------------- claim C24
\* The rows an analysis under the parameters p gives for the entries a page
\* can hold that parse and analyse without an error.
RowsUnder(p) ==
  UNION {LET rows == analyzeProtein(parseUniProtEntry(e).protein[1], p).rows
         IN  {rows[k] : k \in DOMAIN rows} :
           e \in {EntryA, EntryB, EntryPlain, EntryMismatch}}
RowsUnderTable == [p \in TunedParams \cup {InitialParams} |-> RowsUnder(p)]

\* C24: a run keeps the parameter values in force when it was started, and
\* every row it has gathered, from whichever page, is the row the analysis
\* gives under those values, whatever the parameters have become through the
\* sliders or a loaded parameter file while the run awaited its pages.
C24_OneParameterSetPerRun ==
  /\ [][\A r \in 1..MaxRuns :
          /\ (r \notin DOMAIN runs /\ r \in DOMAIN runs') => runs'[r].params = params
          /\ r \in DOMAIN runs => runs'[r].params = runs[r].params]_vars
  /\ [](\A r \in DOMAIN runs : \A k \in DOMAIN runs[r].allReportRows :
          runs[r].allReportRows[k] \in RowsUnderTable[runs[r].params])

\* C24 witness: a run started with both thresholds at 1 has completed after
\* two pages, the parameters having changed meanwhile, and its rows of both
\* pages show protein A's site in a high-density zone.
C24_Witness ==
  \E r \in DOMAIN runs :
    /\ runs[r].pc = "completed" /\ runs[r].pages = 2
    /\ runs[r].params.ssThreshold = Num(1) /\ runs[r].params.glycoThreshold = Num(1)
    /\ params /= runs[r].params
    /\ Cardinality({k \in DOMAIN runs[r].allReportRows :
                      /\ runs[r].allReportRows[k].accession = "A"
                      /\ runs[r].allReportRows[k].inHighDensityZone}) = 2


\* ---------------------------------------------------------------- claim C25
\* C25: the loading flag is true for as long as any lookup is in flight, and
\* once every lookup has finished the displayed protein and error are those
\* of the lookup started last: its protein and no error when it found one,
\* its error when it did not.
C25_LookupsDoNotRace ==
  /\ (\E l \in DOMAIN lookups : ~Finished(l)) => loading
  /\ (lookups /= <<>> /\ \A l \in DOMAIN lookups : Finished(l)) =>
       LET latest == lookups[Len(lookups)]
       IN  IF latest.result /= Null
           THEN data = latest.result /\ error = Null
           ELSE error = Some(LookupError(latest.gene))



====
